---- MODULE Spec2Model ----
(***************************************************************************)
(* Model of src/atium/utility/service.rs: the InfoExtractorBuilder factory *)
(* and MediaInfoExtractorService::get_info, the shim that builds the       *)
(* mediainfo command line, runs it and routes its standard output to the   *)
(* console or to a file.                                                   *)
(*                                                                         *)
(* Strings are TLA+ strings, so that `filename + ext` is a real            *)
(* concatenation.  The external collaborators (the subprocess, the file    *)
(* system, the console, the uuid generator) are an oracle record `e`       *)
(* chosen nondeterministically for every call.                             *)
(***************************************************************************)
EXTENDS Integers, Sequences, FiniteSets, TLC

\* ------------------------------------------------------------------ bounds
MaxCalls == 2
MaxStemLen == 2

\* ------------------------------------------------------- Option / Result
None == [tag |-> "None"]
Some(v) == [tag |-> "Some", val |-> v]

Ok(file) == [tag |-> "Ok", file |-> file]
Err(kind, msg) == [tag |-> "Err", kind |-> kind, msg |-> msg]
NoResult == [tag |-> "NoCall"]

\* --------------------------------------------------------- input domains
InfoFormat == {"Json", "Html", "Xml"}
Inputs == {"clip.mp4", "b.mkv"}
Outputs == {"out1", "out2"}
StemChars == <<"r", "e", "p", "o", "r", "t">>

RECURSIVE Stem(_)
Stem(n) == IF n = 0 THEN "" ELSE Stem(n - 1) \o StemChars[n]
Stems == {Stem(n) : n \in 0..MaxStemLen}

InfoExtractorRequest ==
    [input : Inputs,
     format : {None} \cup {Some(f) : f \in InfoFormat},
     full : {None, Some(TRUE), Some(FALSE)},
     output_file : {None} \cup {Some(s) : s \in Stems}]

\* Error kinds a failed write to the console may be reported with.
PrintErrorKinds == {"CommandError", "IOError"}
Partial == "partial"
NA == "n/a"

\* The behaviours of the collaborators that one call of get_info can meet;
\* fields the call never consults are fixed to NA.
Envs(request) ==
    { [spawn |-> "fail", success |-> FALSE, stdout |-> NA, print |-> NA, fwrite |-> NA] }
    \cup
    { [spawn |-> "ok", success |-> FALSE, stdout |-> o, print |-> p, fwrite |-> NA] :
        o \in Outputs, p \in {"ok"} \cup PrintErrorKinds }
    \cup
    (IF request.output_file = None
     THEN { [spawn |-> "ok", success |-> TRUE, stdout |-> o, print |-> p, fwrite |-> NA] :
              o \in Outputs, p \in {"ok"} \cup PrintErrorKinds }
     ELSE { [spawn |-> "ok", success |-> TRUE, stdout |-> o, print |-> NA, fwrite |-> w] :
              o \in Outputs, w \in {"ok", "fail", "partial"} })

VARIABLES
    probe,      \* outcome of `mediainfo --version`: "none" | "ok" | "fail"
    build,      \* outcome of InfoExtractorBuilder::new
    request,    \* the request of the last get_info call
    env,        \* what the collaborators did during the last call
    args,       \* the arguments the last call passed to the tool
    result,     \* what the last call returned
    events,     \* the effects of the last call, in program order
    fs,         \* the file system: path -> content
    console,    \* what has been written to the caller-visible output stream
    uuidNext,   \* number of identifiers drawn from the uuid generator
    returned,   \* file names returned by the calls with an empty stem
    calls,      \* number of get_info calls made
    pc          \* "idle" | "returning": get_info holds its result and locals

vars == <<probe, build, request, env, args, result, events, fs, console,
          uuidNext, returned, calls, pc>>

\* ------------------------------------------------------------ the builder
\* CommandManager::new runs the probe and reports its failure as a value.
CommandManager_new(probeOutcome) ==
    IF probeOutcome = "ok" THEN [tag |-> "Ok"] ELSE [tag |-> "Err"]

\* `.expect("could not load command!")` panics on an Err.
InfoExtractorBuilder_new(probeOutcome) ==
    LET command_manager == CommandManager_new(probeOutcome)
    IN  IF command_manager.tag = "Ok"
        THEN [tag |-> "Ok"]
        ELSE [tag |-> "Panic", msg |-> "could not load command!"]

\* ------------------------------------------------------------- get_info
ResolveFormat(req) == IF req.format = None THEN "Json" ELSE req.format.val

\* Variant: the default of `full` taken as false.
ResolveFull_false(req) == IF req.full = None THEN FALSE ELSE req.full.val

ResolveFull(req) == IF req.full = None THEN TRUE ELSE req.full.val

FormatArg(format) ==
    CASE format = "Json" -> "--output=JSON"
      [] format = "Html" -> "--output=HTML"
      [] format = "Xml" -> "--output=XML"

\* Variant: the input path pushed before the full-detail argument.
BuildArgs_inputfirst(req) ==
    <<FormatArg(ResolveFormat(req))>>
        \o <<req.input>>
        \o (IF ResolveFull(req) THEN <<"--full">> ELSE <<>>)

BuildArgs(req) ==
    <<FormatArg(ResolveFormat(req))>>
        \o (IF ResolveFull(req) THEN <<"--full">> ELSE <<>>)
        \o <<req.input>>

\* Variant: a three-letter extension for Html.
Ext_htm(format) ==
    CASE format = "Json" -> ".json"
      [] format = "Html" -> ".htm"
      [] format = "Xml" -> ".xml"

Ext(format) ==
    CASE format = "Json" -> ".json"
      [] format = "Html" -> ".html"
      [] format = "Xml" -> ".xml"

\* Uuid::new_v4().to_string(): the n-th identifier of a generator of fresh
\* identifiers.
UuidString(n) == "uuid-" \o ToString(n)

\* The world a call acts on.
World(f, c, u, ev) == [fs |-> f, console |-> c, uuidNext |-> u, events |-> ev]

Log(w, ev) == [w EXCEPT !.events = Append(@, ev)]

\* CommandManager::print_command_output: writes the bytes to the console.
print_command_output(w, bytes, e) ==
    IF e.print = "ok"
    THEN [w |-> Log([w EXCEPT !.console = Append(@, bytes)], "print"),
          res |-> [tag |-> "Ok"]]
    ELSE [w |-> Log(w, "print_failed"),
          res |-> Err(e.print, "could not write to stdout")]

write_to_stdout(w, output, e) == print_command_output(w, output, e)

\* fs::write(path, bytes): creates or truncates the file, then writes.
FsWrite(f, path, bytes) ==
    [p \in DOMAIN f \cup {path} |-> IF p = path THEN bytes ELSE f[p]]

\* Variant: no identifier is generated for an empty stem.
write_info_to_file_nouuid(w, output, out_filepath, format, e) ==
    LET path == out_filepath \o Ext(format)
    IN  CASE e.fwrite = "ok" ->
               [w |-> Log([w EXCEPT !.fs = FsWrite(@, path, output)], "fswrite"),
                res |-> [tag |-> "Ok", val |-> path]]
          [] e.fwrite = "partial" ->
               [w |-> Log([w EXCEPT !.fs = FsWrite(@, path, Partial)], "fswrite_failed"),
                res |-> [tag |-> "Err", val |-> "could not write to file!"]]
          [] OTHER ->
               [w |-> Log(w, "fswrite_failed"),
                res |-> [tag |-> "Err", val |-> "could not write to file!"]]

write_info_to_file(w, output, out_filepath, format, e) ==
    LET ext == Ext(format)
        fresh == out_filepath = ""
        id == IF fresh THEN UuidString(w.uuidNext + 1) ELSE out_filepath
        w1 == IF fresh THEN Log([w EXCEPT !.uuidNext = @ + 1], "uuid") ELSE w
        path == id \o ext
    IN  CASE e.fwrite = "ok" ->
               [w |-> Log([w1 EXCEPT !.fs = FsWrite(@, path, output)], "fswrite"),
                res |-> [tag |-> "Ok", val |-> path]]
          [] e.fwrite = "partial" ->
               [w |-> Log([w1 EXCEPT !.fs = FsWrite(@, path, Partial)], "fswrite_failed"),
                res |-> [tag |-> "Err", val |-> "could not write to file!"]]
          [] OTHER ->
               [w |-> Log(w1, "fswrite_failed"),
                res |-> [tag |-> "Err", val |-> "could not write to file!"]]

\* Variant: the written path is not carried into the response.
write_result_nofile(w, execution_result, output_file, format, e) ==
    IF output_file = None
    THEN LET r == write_to_stdout(w, execution_result, e)
         IN  [w |-> r.w,
              res |-> IF r.res.tag = "Ok" THEN Ok(None) ELSE r.res]
    ELSE LET r == write_info_to_file(w, execution_result, output_file.val, format, e)
         IN  [w |-> r.w,
              res |-> IF r.res.tag = "Ok"
                      THEN Ok(None)
                      ELSE Err("IOError", r.res.val)]

\* Variant: a failed file write is swallowed and the path returned anyway.
write_result_swallow(w, execution_result, output_file, format, e) ==
    IF output_file = None
    THEN LET r == write_to_stdout(w, execution_result, e)
         IN  [w |-> r.w,
              res |-> IF r.res.tag = "Ok" THEN Ok(None) ELSE r.res]
    ELSE LET r == write_info_to_file(w, execution_result, output_file.val, format, e)
         IN  [w |-> r.w,
              res |-> IF r.res.tag = "Ok"
                      THEN Ok(Some(r.res.val))
                      ELSE Ok(Some(output_file.val \o Ext(format)))]

write_result(w, execution_result, output_file, format, e) ==
    IF output_file = None
    THEN LET r == write_to_stdout(w, execution_result, e)
         IN  [w |-> r.w,
              res |-> IF r.res.tag = "Ok" THEN Ok(None) ELSE r.res]
    ELSE LET r == write_info_to_file(w, execution_result, output_file.val, format, e)
         IN  [w |-> r.w,
              res |-> IF r.res.tag = "Ok"
                      THEN Ok(Some(r.res.val))
                      ELSE Err("IOError", r.res.val)]

\* Variant: the error is returned without printing the diagnostic.
OnErrorStatus_noprint(w, stdout, e) ==
    [w |-> w,
     res |-> Err("CommandError", "Command execution returned ERROR status")]

\* What happens after a non-success exit status (lines 146-150).
OnErrorStatus(w, stdout, e) ==
    LET p == print_command_output(w, stdout, e)
    IN  IF p.res.tag = "Err"
        THEN [w |-> p.w, res |-> p.res]
        ELSE [w |-> p.w,
              res |-> Err("CommandError", "Command execution returned ERROR status")]

\* Variant: the exit status is looked at only after the output was routed.
get_info_latecheck(w, req, e) ==
    LET format == ResolveFormat(req)
        a == BuildArgs(req)
        w1 == Log(w, "exec")
        routed == write_result(w1, e.stdout, req.output_file, format,
                               [e EXCEPT !.fwrite = IF @ = NA THEN "ok" ELSE @,
                                         !.print = IF @ = NA THEN "ok" ELSE @])
        r == IF e.spawn = "fail"
             THEN [w |-> w1, res |-> Err("CommandError", "Could not execute command")]
             ELSE IF ~e.success
                  THEN [w |-> routed.w,
                        res |-> Err("CommandError", "Command execution returned ERROR status")]
                  ELSE write_result(w1, e.stdout, req.output_file, format, e)
    IN  [args |-> a, w |-> Log(r.w, "return"), res |-> r.res]

get_info(w, req, e) ==
    LET format == ResolveFormat(req)
        a == BuildArgs(req)
        w1 == Log(w, "exec")
        r == IF e.spawn = "fail"
             THEN [w |-> w1, res |-> Err("CommandError", "Could not execute command")]
             ELSE IF ~e.success
                  THEN OnErrorStatus(w1, e.stdout, e)
                  ELSE write_result(w1, e.stdout, req.output_file, format, e)
    IN  [args |-> a, w |-> Log(r.w, "return"), res |-> r.res]

\* ---------------------------------------------------------------- actions
InitRequest == [input |-> "clip.mp4", format |-> None, full |-> None, output_file |-> None]
InitEnv == [spawn |-> NA, success |-> FALSE, stdout |-> NA, print |-> NA, fwrite |-> NA]

Init ==
    /\ probe = "none"
    /\ build = [tag |-> "NotCalled"]
    /\ request = InitRequest
    /\ env = InitEnv
    /\ args = <<>>
    /\ result = NoResult
    /\ events = <<>>
    /\ fs = <<>>
    /\ console = <<>>
    /\ uuidNext = 0
    /\ returned = <<>>
    /\ calls = 0
    /\ pc = "idle"

\* InfoExtractorBuilder::new(MediaInfo)
Build ==
    /\ build.tag = "NotCalled"
    /\ \E p \in {"ok", "fail"} :
         /\ probe' = p
         /\ build' = InfoExtractorBuilder_new(p)
    /\ UNCHANGED <<request, env, args, result, events, fs, console, uuidNext,
                   returned, calls, pc>>

\* service.get_info(request), on a service the builder returned
GetInfo ==
    /\ build.tag = "Ok"
    /\ pc = "idle"
    /\ calls < MaxCalls
    /\ \E req \in InfoExtractorRequest : \E e \in Envs(req) :
         LET o == get_info(World(fs, console, uuidNext, <<>>), req, e)
         IN  /\ request' = req
             /\ env' = e
             /\ args' = o.args
             /\ result' = o.res
             /\ events' = o.w.events
             /\ fs' = o.w.fs
             /\ console' = o.w.console
             /\ uuidNext' = o.w.uuidNext
             /\ returned' = IF req.output_file = Some("") /\ o.res.tag = "Ok"
                            THEN Append(returned, o.res.file.val)
                            ELSE returned
    /\ calls' = calls + 1
    /\ pc' = "returning"
    /\ UNCHANGED <<probe, build>>

\* get_info returns: the result moves to the caller and the locals of the
\* call (request, args, execution_result) are dropped.
Return ==
    /\ pc = "returning"
    /\ pc' = "idle"
    /\ request' = InitRequest
    /\ env' = InitEnv
    /\ args' = <<>>
    /\ result' = NoResult
    /\ events' = <<>>
    /\ UNCHANGED <<probe, build, fs, console, uuidNext, returned, calls>>

Next == Build \/ GetInfo \/ Return

Spec == Init /\ [][Next]_vars

\* ------------------------------------------------------------ properties
\* The expected tables, written out independently of the operators above.
ExpectedFormatArg == [Json |-> "--output=JSON", Html |-> "--output=HTML", Xml |-> "--output=XML"]
ExpectedExt == [Json |-> ".json", Html |-> ".html", Xml |-> ".xml"]
ExpectedFormat == IF request.format = None THEN "Json" ELSE request.format.val
ExpectedFull == request.full \in {None, Some(TRUE)}

Returning == pc = "returning"
BadStatus == Returning /\ env.spawn = "ok" /\ ~env.success
BadStatusError == Err("CommandError", "Command execution returned ERROR status")
Count(seq, x) == Cardinality({i \in DOMAIN seq : seq[i] = x})
EndsWith(str, suffix) ==
    /\ Len(str) >= Len(suffix)
    /\ SubSeq(str, Len(str) - Len(suffix) + 1, Len(str)) = suffix

\* C1: whenever the subprocess exits with a non-success status, get_info
\* returns a CommandError, also when writing the diagnostic text fails.
C1_BadStatusIsCommandError ==
    BadStatus => (result.tag = "Err" /\ result.kind = "CommandError")

\* C2: on an Ok response the file field is present if and only if the
\* request's output_file was supplied (the empty string included).
C2_FileIffRequested ==
    (Returning /\ result.tag = "Ok")
        => ((result.file # None) <=> (request.output_file # None))

C2_Witness ==
    /\ Returning /\ result.tag = "Ok"
    /\ request.output_file = Some("")
    /\ result.file # None

\* C3: for a non-empty stem S and a format F, when the subprocess and the
\* file write succeed, the response's file is exactly S followed by the
\* extension of F, and the file at that path holds the captured stdout.
C3_FileIsStemPlusExt ==
    (/\ Returning /\ env.spawn = "ok" /\ env.success /\ env.fwrite = "ok"
     /\ request.output_file # None /\ request.output_file # Some(""))
        => LET path == request.output_file.val \o ExpectedExt[ExpectedFormat]
           IN  /\ result = Ok(Some(path))
               /\ path \in DOMAIN fs
               /\ fs[path] = env.stdout

C3_Witness ==
    /\ Returning /\ env.fwrite = "ok"
    /\ request.output_file = Some("re") /\ request.format = Some("Html")
    /\ result = Ok(Some("re.html"))
    /\ fs["re.html"] = "out2"

\* C4: the arguments are the format argument, then "--full" iff the resolved
\* full flag is true, then the input path, and nothing else; output_file
\* plays no part in them.
C4_Arguments ==
    Returning
        => args = <<ExpectedFormatArg[ExpectedFormat]>>
                    \o (IF ExpectedFull THEN <<"--full">> ELSE <<>>)
                    \o <<request.input>>

C4_Witness ==
    /\ Returning
    /\ request.format = Some("Xml") /\ request.full = None
    /\ request.input = "b.mkv" /\ request.output_file = Some("r")
    /\ args = <<"--output=XML", "--full", "b.mkv">>

\* C5: a failed verification probe makes InfoExtractorBuilder::new return an
\* Err, and get_info is only ever called on a service built after a
\* successful probe.
C5_ProbeFailureIsErr ==
    /\ probe = "fail" => build.tag = "Err"
    /\ calls > 0 => probe = "ok"

\* C6: when get_info returns the CommandError of a non-success exit status,
\* the captured stdout was written to the console before the return.
C6_DiagnosticBeforeError ==
    (BadStatus /\ result = BadStatusError)
        => /\ \E i, j \in DOMAIN events :
                i < j /\ events[i] = "print" /\ events[j] = "return"
           /\ console # <<>>
           /\ console[Len(console)] = env.stdout

C6_Witness ==
    /\ BadStatus /\ result = BadStatusError
    /\ events = <<"exec", "print", "return">>
    /\ console = <<"out1", "out2">>

\* C7: when an output file is requested, the subprocess succeeds and the
\* file write fails, get_info returns an IOError and no Ok response.
C7_WriteFailureIsIOError ==
    (/\ Returning /\ env.spawn = "ok" /\ env.success
     /\ request.output_file # None /\ env.fwrite # "ok")
        => (result.tag = "Err" /\ result.kind = "IOError")

C7_Witness ==
    /\ Returning /\ env.success /\ env.fwrite = "partial"
    /\ request.output_file = Some("r")
    /\ result = Err("IOError", "could not write to file!")

\* C8: with an empty output_file, a successful call returns a non-empty
\* generated stem followed by the extension of the format, and no two such
\* calls return the same file name.
C8_GeneratedNames ==
    /\ (/\ Returning /\ request.output_file = Some("")
        /\ env.spawn = "ok" /\ env.success /\ env.fwrite = "ok")
          => /\ result.tag = "Ok" /\ result.file # None
             /\ EndsWith(result.file.val, ExpectedExt[ExpectedFormat])
             /\ Len(result.file.val) > Len(ExpectedExt[ExpectedFormat])
             /\ returned # <<>> /\ returned[Len(returned)] = result.file.val
    /\ \A i, j \in DOMAIN returned : i # j => returned[i] # returned[j]

C8_Witness ==
    /\ Returning /\ request.output_file = Some("") /\ result.tag = "Ok"
    /\ Len(returned) = 2

\* C9: a request that omits `full` has the arguments, result and effects of
\* the same request with full = true, and one that omits `format` those of
\* the same request with format = Json.
C9_DefaultsStep ==
    (pc = "idle" /\ pc' = "returning") =>
        LET before == World(fs, console, uuidNext, <<>>)
            seen == [args |-> args',
                     w |-> World(fs', console', uuidNext', events'),
                     res |-> result']
        IN  /\ request'.full = None
                => seen = get_info(before, [request' EXCEPT !.full = Some(TRUE)], env')
            /\ request'.format = None
                => seen = get_info(before, [request' EXCEPT !.format = Some("Json")], env')

C9_DefaultsEquivalent == [][C9_DefaultsStep]_vars

C9_Witness ==
    /\ Returning
    /\ request.full = None /\ request.format = None
    /\ request.output_file = Some("r") /\ result = Ok(Some("r.json"))

\* C10: a call runs the tool exactly once; it touches the file system only
\* if the subprocess exited with success and output_file was supplied; on a
\* spawn failure nothing reaches the console and the result is a
\* CommandError.
C10_FrameStep ==
    (pc = "idle" /\ pc' = "returning") =>
        LET wrote == \/ fs' # fs
                     \/ Count(events', "fswrite") + Count(events', "fswrite_failed") > 0
        IN  /\ Count(events', "exec") = 1
            /\ wrote => (/\ env'.spawn = "ok" /\ env'.success
                         /\ request'.output_file # None)
            /\ env'.spawn = "fail"
                 => /\ console' = console
                    /\ Count(events', "print") = 0
                    /\ result'.tag = "Err" /\ result'.kind = "CommandError"

C10_Frame == [][C10_FrameStep]_vars

C10_Witness ==
    /\ Returning /\ env.spawn = "ok" /\ ~env.success
    /\ request.output_file = Some("r")
    /\ fs # <<>> /\ "r.json" \notin DOMAIN fs
    /\ events = <<"exec", "print", "return">>

====
